---- MODULE Spec2Model ----
(***************************************************************************)
(* A model of bez::basic_vector<T> (include/basic_vector.h) and            *)
(* bez::basic_matrix<T> (include/basic_matrix.h).                          *)
(*                                                                         *)
(* T is instantiated as an unsigned 16-bit integer (unsigned short): the   *)
(* only constructor that takes a signed fill value exists for unsigned T.  *)
(* Element buffers (new T[n]) live in `heap`, arrays of row vectors        *)
(* (new basic_vector<T>[n]) in `rheap`; a container object holds the       *)
(* address of its buffer, so that a shallow copy would be visible.  Named  *)
(* objects of a client program live in `vec` and `mat`.  One action is one *)
(* full expression of the client: the temporaries it creates are destroyed *)
(* before it ends, and what it returned is recorded in `ret`.  A function  *)
(* that returns its named local by value constructs it in the caller's     *)
(* storage (the copy is elided, as GCC and Clang do at every optimisation  *)
(* level).                                                                 *)
(***************************************************************************)
EXTENDS Integers, Sequences, FiniteSets, TLC

VARIABLES heap, rheap, vec, mat, ngen, last, ret

vars == <<heap, rheap, vec, mat, ngen, last, ret>>

(***************************************************************************)
(* Bounds of the model.                                                    *)
(***************************************************************************)
MaxLen == 3    \* vector lengths are 1..MaxLen
MaxElem == 1   \* element values of the two-container scenarios are 0..MaxElem
MaxVal == 4    \* element values and scalars of the one-vector scenarios are 0..MaxVal
MaxDim == 2    \* matrix dimensions are 1..MaxDim

Lens == 1..MaxLen
Elem == 0..MaxElem
Vals == 0..MaxVal
Dims == 1..MaxDim
VSlots == {"a", "b"}
MSlots == {"A", "B"}

(***************************************************************************)
(* enum class STATUS                                                       *)
(***************************************************************************)
BAD_ALLOCATOR == "BAD_ALLOCATOR"
BOUND_ARRAY == "BOUND_ARRAY"
BAD_INITIALIZED == "BAD_INITIALIZED"
GOOD_ALLOCATOR == "GOOD_ALLOCATOR"
DIVIDED_ZERO == "DIVIDED_ZERO"

(***************************************************************************)
(* The element type: conversion to T and T's arithmetic.  Operands are     *)
(* promoted to int, the result is converted back to T on assignment.       *)
(***************************************************************************)
TBits == 16
Modulus == 2 ^ TBits
ToT(x) == x % Modulus
TAdd(x, y) == ToT(x + y)
TSub(x, y) == ToT(x - y)
TMul(x, y) == ToT(x * y)
TDiv(x, y) == ToT(x \div y)

(***************************************************************************)
(* The free store.  operator new returns the lowest free address.          *)
(***************************************************************************)
NewAddr(h) ==
  CHOOSE p \in 0..Cardinality(DOMAIN h) :
    /\ p \notin DOMAIN h
    /\ \A q \in 0..Cardinality(DOMAIN h) : q \notin DOMAIN h => p <= q
Alloc(h, p, s) == (p :> s) @@ h
Free(h, p) == [q \in DOMAIN h \ {p} |-> h[q]]
Fill(n, x) == [i \in 1..n |-> x]

(* The world an operation runs in: the element buffers and the counter.   *)
World(h, n) == [heap |-> h, ngen |-> n]
Vector(len, p, st) == [Length |-> len, Allocator |-> p, Status |-> st]

(***************************************************************************)
(* Constructors and destructor of basic_vector.  Each returns the new     *)
(* world w and the object v.                                               *)
(***************************************************************************)
basic_vector_default(w) ==
  LET p == NewAddr(w.heap) IN
  [w |-> World(Alloc(w.heap, p, <<0>>), w.ngen + 1),
   v |-> Vector(1, p, GOOD_ALLOCATOR)]

basic_vector_sized(w, length) ==
  LET p == NewAddr(w.heap) IN
  [w |-> World(Alloc(w.heap, p, Fill(length, 0)), w.ngen + 1),
   v |-> Vector(length, p, GOOD_ALLOCATOR)]

(* basic_vector(size_t, long) for unsigned T.  With a negative value the  *)
(* constructor returns without assigning _Allocator: the pointer is       *)
(* indeterminate and designates memory of unspecified contents, `junk`.   *)
basic_vector_fill(w, length, initializedValue, junk) ==
  LET p == NewAddr(w.heap) IN
  IF initializedValue < 0
  THEN [w |-> World(Alloc(w.heap, p, junk), w.ngen + 1),
        v |-> Vector(length, p, BAD_INITIALIZED)]
  ELSE [w |-> World(Alloc(w.heap, p, Fill(length, ToT(initializedValue))),
                    w.ngen + 1),
        v |-> Vector(length, p, GOOD_ALLOCATOR)]

basic_vector_copy_uncounted(w, other) ==
  LET p == NewAddr(w.heap) IN
  [w |-> World(Alloc(w.heap, p,
                     [i \in 1..other.Length |-> w.heap[other.Allocator][i]]),
               w.ngen),
   v |-> Vector(other.Length, p, GOOD_ALLOCATOR)]

basic_vector_copy(w, other) ==
  LET p == NewAddr(w.heap) IN
  [w |-> World(Alloc(w.heap, p,
                     [i \in 1..other.Length |-> w.heap[other.Allocator][i]]),
               w.ngen + 1),
   v |-> Vector(other.Length, p, GOOD_ALLOCATOR)]

basic_vector_dtor(w, v) == World(Free(w.heap, v.Allocator), w.ngen - 1)

(***************************************************************************)
(* operator[] (const and non-const have the same body): the position the  *)
(* returned reference designates and the status the call leaves.          *)
(***************************************************************************)
IndexPosFirst(v, index) == IF index < v.Length THEN index ELSE 0
IndexPos(v, index) == IF index < v.Length THEN index ELSE v.Length - 1

IndexStatus(v, index) == IF index < v.Length THEN v.Status ELSE BOUND_ARRAY

Indexed(v, index) == [v EXCEPT !.Status = IndexStatus(v, index)]
ReadAt(h, v, index) == h[v.Allocator][IndexPos(v, index) + 1]
Elems(h, v) == h[v.Allocator]

(* at(index): no check, the reference designates _Allocator + index.      *)
AtPos(v, index) == index

(***************************************************************************)
(* operator=(const basic_vector&).  `self` is this == &other.  The status *)
(* of *this is not assigned.                                               *)
(***************************************************************************)
vec_assign(w, this, other, self) ==
  IF self THEN [w |-> w, v |-> this]
  ELSE LET h1 == Free(w.heap, this.Allocator)
           p == NewAddr(h1)
       IN [w |-> World(Alloc(h1, p, [i \in 1..other.Length |->
                                       ReadAt(w.heap, other, i - 1)]),
                       w.ngen),
           v |-> [this EXCEPT !.Length = other.Length, !.Allocator = p]]

(* set(value, index): _Allocator[index] = value, no check.  The client    *)
(* passes index < length.                                                  *)
vec_set(w, this, value, index) ==
  [w |-> World([w.heap EXCEPT ![this.Allocator][index + 1] = value], w.ngen),
   v |-> this]

(* v[index] = value through the reference operator[] returns.             *)
vec_store(w, this, index, value) ==
  [w |-> World([w.heap EXCEPT ![this.Allocator][IndexPos(this, index) + 1]
                                = value], w.ngen),
   v |-> Indexed(this, index)]

(***************************************************************************)
(* Scalar arithmetic.  In every loop below the index is below the length  *)
(* of the vector it indexes, so operator[] leaves the statuses alone.     *)
(***************************************************************************)
vec_mul(w, other, k) ==
  LET c == basic_vector_copy(w, other) IN
  IF k = 1 THEN c
  ELSE [w |-> World([c.w.heap EXCEPT ![c.v.Allocator] =
                       [i \in 1..c.v.Length |->
                          TMul(ReadAt(w.heap, other, i - 1), k)]],
                    c.w.ngen),
        v |-> c.v]

vec_mul_assign(w, this, k) ==
  IF k = 1 THEN [w |-> w, v |-> this]
  ELSE [w |-> World([w.heap EXCEPT ![this.Allocator] =
                       [i \in 1..this.Length |-> TMul(w.heap[this.Allocator][i], k)]],
                    w.ngen),
        v |-> this]

vec_div_unguarded(w, other, k) ==
  LET c == basic_vector_copy(w, other) IN
  [w |-> World([c.w.heap EXCEPT ![c.v.Allocator] =
                  [i \in 1..c.v.Length |->
                     IF k = 0 THEN 0 ELSE TDiv(ReadAt(w.heap, other, i - 1), k)]],
               c.w.ngen),
   v |-> c.v]
vec_div(w, other, k) ==
  LET c == basic_vector_copy(w, other) IN
  IF k = 0 THEN [w |-> c.w, v |-> [c.v EXCEPT !.Status = DIVIDED_ZERO]]
  ELSE [w |-> World([c.w.heap EXCEPT ![c.v.Allocator] =
                       [i \in 1..c.v.Length |->
                          TDiv(ReadAt(w.heap, other, i - 1), k)]],
                    c.w.ngen),
        v |-> c.v]

vec_div_assign(w, this, k) ==
  IF k = 0 THEN [w |-> w, v |-> [this EXCEPT !.Status = DIVIDED_ZERO]]
  ELSE [w |-> World([w.heap EXCEPT ![this.Allocator] =
                       [i \in 1..this.Length |-> TDiv(w.heap[this.Allocator][i], k)]],
                    w.ngen),
        v |-> this]

(***************************************************************************)
(* Vector with vector.                                                     *)
(***************************************************************************)
vec_add_unflagged(w, lhs, rhs) ==
  LET c == basic_vector_sized(w, lhs.Length) IN
  IF lhs.Length # rhs.Length THEN c
  ELSE [w |-> World([c.w.heap EXCEPT ![c.v.Allocator] =
                       [i \in 1..lhs.Length |->
                          TAdd(ReadAt(w.heap, lhs, i - 1), ReadAt(w.heap, rhs, i - 1))]],
                    c.w.ngen),
        v |-> c.v]
vec_add(w, lhs, rhs) ==
  LET c == basic_vector_sized(w, lhs.Length) IN
  IF lhs.Length # rhs.Length
  THEN [w |-> c.w, v |-> [c.v EXCEPT !.Status = BOUND_ARRAY]]
  ELSE [w |-> World([c.w.heap EXCEPT ![c.v.Allocator] =
                       [i \in 1..lhs.Length |->
                          TAdd(ReadAt(w.heap, lhs, i - 1), ReadAt(w.heap, rhs, i - 1))]],
                    c.w.ngen),
        v |-> c.v]

vec_sub(w, lhs, rhs) ==
  LET c == basic_vector_sized(w, lhs.Length) IN
  IF lhs.Length # rhs.Length
  THEN [w |-> c.w, v |-> [c.v EXCEPT !.Status = BOUND_ARRAY]]
  ELSE [w |-> World([c.w.heap EXCEPT ![c.v.Allocator] =
                       [i \in 1..lhs.Length |->
                          TSub(ReadAt(w.heap, lhs, i - 1), ReadAt(w.heap, rhs, i - 1))]],
                    c.w.ngen),
        v |-> c.v]

vec_add_assign(w, this, other) ==
  IF this.Length # other.Length THEN [w |-> w, v |-> this]
  ELSE [w |-> World([w.heap EXCEPT ![this.Allocator] =
                       [i \in 1..this.Length |->
                          TAdd(w.heap[this.Allocator][i], ReadAt(w.heap, other, i - 1))]],
                    w.ngen),
        v |-> this]

vec_sub_assign(w, this, other) ==
  IF this.Length # other.Length THEN [w |-> w, v |-> this]
  ELSE [w |-> World([w.heap EXCEPT ![this.Allocator] =
                       [i \in 1..this.Length |->
                          TSub(w.heap[this.Allocator][i], ReadAt(w.heap, other, i - 1))]],
                    w.ngen),
        v |-> this]

(***************************************************************************)
(* std::sort(first, last): the elements in ascending order.                *)
(***************************************************************************)
Insert(s, x) ==
  LET k == Cardinality({i \in 1..Len(s) : s[i] <= x}) IN
  SubSeq(s, 1, k) \o <<x>> \o SubSeq(s, k + 1, Len(s))

RECURSIVE std_sort(_)
std_sort(s) == IF Len(s) = 0 THEN <<>> ELSE Insert(std_sort(Tail(s)), Head(s))

(***************************************************************************)
(* operator== and operator!=.  t1 and t2 are copies, sorted in place and  *)
(* destroyed on return; r is the value returned.                           *)
(***************************************************************************)
vec_eq_positional(w, lhs, rhs) ==
  [w |-> w,
   r |-> /\ lhs.Length = rhs.Length
         /\ \A i \in 1..lhs.Length : Elems(w.heap, lhs)[i] = Elems(w.heap, rhs)[i]]
vec_eq(w, lhs, rhs) ==
  IF lhs.Length # rhs.Length THEN [w |-> w, r |-> FALSE]
  ELSE LET c1 == basic_vector_copy(w, lhs)
           c2 == basic_vector_copy(c1.w, rhs)
           h == [c2.w.heap EXCEPT
                   ![c1.v.Allocator] = std_sort(c2.w.heap[c1.v.Allocator]),
                   ![c2.v.Allocator] = std_sort(c2.w.heap[c2.v.Allocator])]
           w3 == World(h, c2.w.ngen)
           same == \A i \in 0..(lhs.Length - 1) :
                     ReadAt(h, c1.v, i) = ReadAt(h, c2.v, i)
       IN [w |-> basic_vector_dtor(basic_vector_dtor(w3, c2.v), c1.v),
           r |-> same]

vec_ne(w, lhs, rhs) ==
  IF lhs.Length # rhs.Length THEN [w |-> w, r |-> TRUE]
  ELSE LET e == vec_eq(w, lhs, rhs) IN [w |-> e.w, r |-> ~e.r]

(***************************************************************************)
(* basic_matrix: an array of row vectors in rheap.  An operation runs in   *)
(* the world w and the row arrays rh and returns both, with the object m.  *)
(***************************************************************************)
Matrix(r, c, p, st) == [Rows |-> r, Columns |-> c, Allocator |-> p, Status |-> st]
MRes(w, rh, m) == [w |-> w, rh |-> rh, m |-> m]
(* size_t(0) - 1: the largest index, above every length of the model.      *)
SIZE_MAX == (2 ^ 30 - 1) * 2 + 1

(* new basic_vector<T>[n]: n default-constructed vectors.                  *)
RECURSIVE new_rows(_, _)
new_rows(w, n) ==
  IF n = 0 THEN [w |-> w, rows |-> <<>>]
  ELSE LET r == new_rows(w, n - 1)
           c == basic_vector_default(r.w)
       IN [w |-> c.w, rows |-> Append(r.rows, c.v)]

(* delete[] rows: the destructors run, last element first.                 *)
RECURSIVE delete_rows(_, _)
delete_rows(w, rows) ==
  IF Len(rows) = 0 THEN w
  ELSE delete_rows(basic_vector_dtor(w, rows[Len(rows)]),
                   SubSeq(rows, 1, Len(rows) - 1))

(* row = <temporary>: assignment from the temporary c.v made in c.w, which *)
(* is destroyed at the end of the statement.                               *)
assign_temp(row, c) ==
  LET a == vec_assign(c.w, row, c.v, FALSE) IN
  [w |-> basic_vector_dtor(a.w, c.v), v |-> a.v]

(* for (row < n) _Allocator[row] = basic_vector<T>(columns, value), and    *)
(* basic_vector<T>(size) when value < 0 stands for the one-argument form.  *)
RECURSIVE fill_rows(_, _, _, _, _)
fill_rows(w, rows, i, columns, value) ==
  IF i > Len(rows) THEN [w |-> w, rows |-> rows]
  ELSE LET c == IF value < 0 THEN basic_vector_sized(w, columns)
                ELSE basic_vector_fill(w, columns, value, <<>>)
           a == assign_temp(rows[i], c)
       IN fill_rows(a.w, [rows EXCEPT ![i] = a.v], i + 1, columns, value)

(* for (row < _Rows) _Allocator[row] = other._Allocator[row]               *)
RECURSIVE copy_rows(_, _, _, _)
copy_rows(w, rows, src, i) ==
  IF i > Len(rows) THEN [w |-> w, rows |-> rows]
  ELSE LET a == vec_assign(w, rows[i], src[i], FALSE) IN
       copy_rows(a.w, [rows EXCEPT ![i] = a.v], src, i + 1)

matrix_sized(w, rh, size) ==
  LET n == new_rows(w, size)
      f == fill_rows(n.w, n.rows, 1, size, -1)
      p == NewAddr(rh)
  IN MRes(f.w, Alloc(rh, p, f.rows), Matrix(size, size, p, GOOD_ALLOCATOR))

matrix_fill(w, rh, rows, columns, value) ==
  LET n == new_rows(w, rows)
      f == fill_rows(n.w, n.rows, 1, columns, value)
      p == NewAddr(rh)
  IN MRes(f.w, Alloc(rh, p, f.rows), Matrix(rows, columns, p, GOOD_ALLOCATOR))

(* The copy constructor assigns _Status, _Rows and _Allocator; _Columns is *)
(* never assigned and holds an indeterminate value, `columns`.             *)
matrix_copy_shallow(w, rh, other, columns) ==
  MRes(w, rh, Matrix(other.Rows, columns, other.Allocator, other.Status))
matrix_copy(w, rh, other, columns) ==
  LET n == new_rows(w, other.Rows)
      f == copy_rows(n.w, n.rows, rh[other.Allocator], 1)
      p == NewAddr(rh)
  IN MRes(f.w, Alloc(rh, p, f.rows), Matrix(other.Rows, columns, p, other.Status))

matrix_dtor(w, rh, m) ==
  [w |-> delete_rows(w, rh[m.Allocator]), rh |-> Free(rh, m.Allocator)]

matrix_assign(w, rh, this, other, self) ==
  IF self THEN MRes(w, rh, this)
  ELSE LET d == matrix_dtor(w, rh, this)
           n == new_rows(d.w, other.Rows)
           f == copy_rows(n.w, n.rows, rh[other.Allocator], 1)
           p == NewAddr(d.rh)
       IN MRes(f.w, Alloc(d.rh, p, f.rows),
               Matrix(other.Rows, other.Columns, p, other.Status))

(***************************************************************************)
(* at(row, column) and operator()(row, column), const or not: one body.    *)
(* The row the reference lies in (from 0), the index handed to that row's  *)
(* operator[], and the matrix status the call leaves.                      *)
(***************************************************************************)
MIndexRow(m, row) == IF row < m.Rows THEN row ELSE m.Rows - 1
MIndexColumn(m, row, column) ==
  IF row < m.Rows THEN column
  ELSE IF m.Columns = 0 THEN SIZE_MAX ELSE m.Columns - 1
MIndexStatus(m, row) == IF row < m.Rows THEN m.Status ELSE BOUND_ARRAY

(* The matrix and its rows after m(row, column).                           *)
mat_index(rh, m, row, column) ==
  LET r == MIndexRow(m, row)
      c == MIndexColumn(m, row, column)
      v == rh[m.Allocator][r + 1]
  IN [rh |-> [rh EXCEPT ![m.Allocator][r + 1] = Indexed(v, c)],
      m |-> [m EXCEPT !.Status = MIndexStatus(m, row)],
      row |-> r,
      buf |-> v.Allocator,
      pos |-> IndexPos(v, c)]

(* set(row, column, value): _Allocator[row][column] = value.  The client   *)
(* passes row < rows; the column goes through the row's operator[].        *)
matrix_set(w, rh, m, row, column, value) ==
  LET v == rh[m.Allocator][row + 1]
      s == vec_store(w, v, column, value)
  IN MRes(s.w, [rh EXCEPT ![m.Allocator][row + 1] = s.v], m)

(* m(row, column) = value through the reference operator() returns.        *)
matrix_store(w, rh, m, row, column, value) ==
  LET x == mat_index(rh, m, row, column) IN
  MRes(World([w.heap EXCEPT ![x.buf][x.pos + 1] = value], w.ngen), x.rh, x.m)

(***************************************************************************)
(* Matrix with matrix.  other._Allocator[i] with i >= other._Rows reads    *)
(* past the row array: an object of unspecified length and contents, junk. *)
(***************************************************************************)
RowOf(rh, m, i, junk) == IF i <= m.Rows THEN rh[m.Allocator][i] ELSE junk

DimensionsDiffer(lhs, rhs) == lhs.Rows # rhs.Rows /\ lhs.Columns # rhs.Columns

(* for (i < lhs._Rows) matrix._Allocator[i] = lhs._Allocator[i] (+|-)      *)
(* rhs._Allocator[i]                                                       *)
RECURSIVE combine_rows(_, _, _, _, _, _, _)
combine_rows(w, rows, lrows, rhs_rows, junk, op, i) ==
  IF i > Len(lrows) THEN [w |-> w, rows |-> rows]
  ELSE LET r == IF i <= Len(rhs_rows) THEN rhs_rows[i] ELSE junk
           t == IF op = "add" THEN vec_add(w, lrows[i], r) ELSE vec_sub(w, lrows[i], r)
           a == assign_temp(rows[i], t)
       IN combine_rows(a.w, [rows EXCEPT ![i] = a.v], lrows, rhs_rows, junk, op, i + 1)

matrix_combine(w, rh, lhs, rhs, op, columns, junk) ==
  LET c == matrix_copy(w, rh, lhs, columns) IN
  IF DimensionsDiffer(lhs, rhs)
  THEN MRes(c.w, c.rh, [c.m EXCEPT !.Status = BOUND_ARRAY])
  ELSE LET f == combine_rows(c.w, c.rh[c.m.Allocator], rh[lhs.Allocator],
                             rh[rhs.Allocator], junk, op, 1)
       IN MRes(f.w, [c.rh EXCEPT ![c.m.Allocator] = f.rows], c.m)

matrix_add(w, rh, lhs, rhs, columns, junk) ==
  matrix_combine(w, rh, lhs, rhs, "add", columns, junk)
matrix_sub(w, rh, lhs, rhs, columns, junk) ==
  matrix_combine(w, rh, lhs, rhs, "sub", columns, junk)

(* for (i < _Rows) _Allocator[i] (+=|-=) other._Allocator[i]               *)
RECURSIVE combine_assign_rows(_, _, _, _, _, _)
combine_assign_rows(w, rows, other_rows, junk, op, i) ==
  IF i > Len(rows) THEN [w |-> w, rows |-> rows]
  ELSE LET r == IF i <= Len(other_rows) THEN other_rows[i] ELSE junk
           a == IF op = "add" THEN vec_add_assign(w, rows[i], r)
                ELSE vec_sub_assign(w, rows[i], r)
       IN combine_assign_rows(a.w, [rows EXCEPT ![i] = a.v], other_rows, junk, op, i + 1)

matrix_combine_assign(w, rh, this, other, op, junk) ==
  IF DimensionsDiffer(this, other) THEN MRes(w, rh, this)
  ELSE LET f == combine_assign_rows(w, rh[this.Allocator], rh[other.Allocator],
                                    junk, op, 1)
       IN MRes(f.w, [rh EXCEPT ![this.Allocator] = f.rows], this)

matrix_add_assign(w, rh, this, other, junk) ==
  matrix_combine_assign(w, rh, this, other, "add", junk)
matrix_sub_assign(w, rh, this, other, junk) ==
  matrix_combine_assign(w, rh, this, other, "sub", junk)

(* operator/=(k)                                                           *)
RECURSIVE div_assign_rows(_, _, _, _)
div_assign_rows(w, rows, k, i) ==
  IF i > Len(rows) THEN [w |-> w, rows |-> rows]
  ELSE LET a == vec_div_assign(w, rows[i], k) IN
       div_assign_rows(a.w, [rows EXCEPT ![i] = a.v], k, i + 1)

matrix_div_assign(w, rh, this, k) ==
  IF k = 0 THEN MRes(w, rh, [this EXCEPT !.Status = DIVIDED_ZERO])
  ELSE LET f == div_assign_rows(w, rh[this.Allocator], k, 1) IN
       MRes(f.w, [rh EXCEPT ![this.Allocator] = f.rows], this)

(***************************************************************************)
(* operator* and operator*=.  The test for operands that cannot be         *)
(* multiplied, and the dimensions of the product.                          *)
(***************************************************************************)
MulIncompatibleNever(lhs, rhs) == FALSE
MulIncompatible(lhs, rhs) == lhs.Rows # rhs.Columns /\ lhs.Columns # rhs.Rows
MulRowsLeft(lhs, rhs) == lhs.Rows
MulRows(lhs, rhs) == IF lhs.Rows >= rhs.Columns THEN lhs.Rows ELSE lhs.Columns
MulColumns(lhs, rhs) == IF lhs.Rows >= rhs.Columns THEN rhs.Columns ELSE rhs.Rows

(* for (row) for (col) for (inner)                                         *)
(*   matrix(row, col) += lhs(row, inner) * rhs(inner, col);                *)
(* The operands are read through operator(), which clamps and flags; what  *)
(* a read yields does not depend on the flags or on the local matrix, and  *)
(* a flag once set stays, so the loops are taken cell by cell and the      *)
(* flags from the set of indices read.                                     *)
MulValue(h, rh, m, row, column) ==
  LET x == mat_index(rh, m, row, column) IN h[x.buf][x.pos + 1]

RECURSIVE mul_cell(_, _, _, _, _, _, _, _, _)
mul_cell(h, rh, lhs, rhs, row, col, inner, rows, acc) ==
  IF inner >= rows THEN acc
  ELSE mul_cell(h, rh, lhs, rhs, row, col, inner + 1, rows,
                TAdd(acc, TMul(MulValue(h, rh, lhs, row, inner),
                               MulValue(h, rh, rhs, inner, col))))

LhsReads(rows, columns) ==
  IF columns = 0 THEN {} ELSE (0..(rows - 1)) \X (0..(rows - 1))
RhsReads(rows, columns) == (0..(rows - 1)) \X (0..(columns - 1))

(* The matrix m and its rows after m(rd[1], rd[2]) for every rd of reads.  *)
MulFlaggedMatrix(m, reads) ==
  [m EXCEPT !.Status = IF \E rd \in reads : MIndexStatus(m, rd[1]) # m.Status
                       THEN BOUND_ARRAY ELSE m.Status]
MulFlaggedRows(rows, m, reads) ==
  [k \in DOMAIN rows |->
     IF \E rd \in reads :
          /\ MIndexRow(m, rd[1]) = k - 1
          /\ Indexed(rows[k], MIndexColumn(m, rd[1], rd[2])).Status # rows[k].Status
     THEN [rows[k] EXCEPT !.Status = BOUND_ARRAY]
     ELSE rows[k]]

(* The product in a local matrix(rows, columns), and the operands as the   *)
(* reads left them; `same` says that lhs and rhs are one object.  c is the *)
(* local matrix as its constructor leaves it.                              *)
mul_product(w, rh, lhs, rhs, same) ==
  LET rows == MulRows(lhs, rhs)
      columns == MulColumns(lhs, rhs)
      lreads == IF same THEN LhsReads(rows, columns) \cup RhsReads(rows, columns)
                ELSE LhsReads(rows, columns)
      rreads == IF same THEN lreads ELSE RhsReads(rows, columns)
      loops(c) ==
        LET out == c.rh[c.m.Allocator]
            h == [q \in DOMAIN c.w.heap |->
                    IF \E r \in 1..rows : out[r].Allocator = q
                    THEN LET r == CHOOSE r \in 1..rows : out[r].Allocator = q IN
                         [col \in 1..columns |->
                            mul_cell(w.heap, rh, lhs, rhs, r - 1, col - 1, 0, rows, 0)]
                    ELSE c.w.heap[q]]
            rh1 == [c.rh EXCEPT ![lhs.Allocator] = MulFlaggedRows(@, lhs, lreads)]
            rh2 == [rh1 EXCEPT ![rhs.Allocator] = MulFlaggedRows(@, rhs, rreads)]
        IN [w |-> World(h, c.w.ngen), rh |-> rh2, m |-> c.m,
            lhs |-> MulFlaggedMatrix(lhs, lreads),
            rhs |-> MulFlaggedMatrix(rhs, rreads)]
  IN CHOOSE p \in {loops(c) : c \in {matrix_fill(w, rh, rows, columns, 0)}} : TRUE

matrix_mul(w, rh, lhs, rhs, same) ==
  IF MulIncompatible(lhs, rhs)
  THEN CHOOSE p \in {[w |-> c.w, rh |-> c.rh, m |-> c.m, lhs |-> lhs, rhs |-> rhs] :
                       c \in {matrix_fill(w, rh, 1, 1, 0)}} : TRUE
  ELSE mul_product(w, rh, lhs, rhs, same)

(* *this = matrix, then the local matrix is destroyed.                     *)
matrix_mul_assign(w, rh, this, other, same) ==
  IF MulIncompatible(this, other)
  THEN [w |-> w, rh |-> rh, m |-> this, other |-> other]
  ELSE LET destroyed(p, a) ==
             LET d == matrix_dtor(a.w, a.rh, p.m) IN
             [w |-> d.w, rh |-> d.rh, m |-> a.m,
              other |-> IF same THEN a.m ELSE p.rhs]
           assigned(p) ==
             CHOOSE r \in {destroyed(p, a) :
                             a \in {matrix_assign(p.w, p.rh, p.lhs, p.m, FALSE)}} : TRUE
       IN CHOOSE r \in {assigned(p) : p \in {mul_product(w, rh, this, other, same)}} :
            TRUE

(* operator== and operator!=: for (row < lhs.rows())                       *)
(* if (lhs._Allocator[row] != rhs._Allocator[row]) return false.           *)
RECURSIVE eq_rows(_, _, _, _, _)
eq_rows(w, lrows, rhs_rows, junk, i) ==
  IF i > Len(lrows) THEN [w |-> w, r |-> TRUE]
  ELSE LET r == IF i <= Len(rhs_rows) THEN rhs_rows[i] ELSE junk
           c == vec_ne(w, lrows[i], r)
       IN IF c.r THEN [w |-> c.w, r |-> FALSE]
          ELSE eq_rows(c.w, lrows, rhs_rows, junk, i + 1)

matrix_eq(w, rh, lhs, rhs, junk) ==
  IF DimensionsDiffer(lhs, rhs) THEN [w |-> w, r |-> FALSE]
  ELSE eq_rows(w, rh[lhs.Allocator], rh[rhs.Allocator], junk, 1)

matrix_ne(w, rh, lhs, rhs, junk) ==
  LET e == matrix_eq(w, rh, lhs, rhs, junk) IN [w |-> e.w, r |-> ~e.r]

(***************************************************************************)
(* The client program.  `last` names the expression evaluated last, `ret` *)
(* is what it returned: a reference (buffer, position, value read through  *)
(* it), a vector (as observed before the temporary is destroyed), or a     *)
(* bool.                                                                   *)
(***************************************************************************)
Last(op, s, o, k, i) == [op |-> op, s |-> s, o |-> o, k |-> k, i |-> i]
NoRet == [kind |-> "none"]
RetRef(buf, pos, val) == [kind |-> "ref", buf |-> buf, pos |-> pos, val |-> val]
RetBool(b) == [kind |-> "bool", bool |-> b]
Snap(h, v) == [Length |-> v.Length, elems |-> Elems(h, v), Status |-> v.Status]
RetVec(h, v) == [kind |-> "vec", vec |-> Snap(h, v)]

W == World(heap, ngen)
InVals(s) == \A i \in DOMAIN s : s[i] \in Vals
STATUS == {BAD_ALLOCATOR, BOUND_ARRAY, BAD_INITIALIZED, GOOD_ALLOCATOR, DIVIDED_ZERO}

(* No object yet.                                                           *)
Init ==
  /\ heap = <<>>
  /\ rheap = <<>>
  /\ vec = <<>>
  /\ mat = <<>>
  /\ ngen = 0
  /\ last = Last("init", "-", "-", 0, 0)
  /\ ret = NoRet

(* One vector a, constructed and filled by the client (a sized            *)
(* constructor, then set and setStatus): any length, contents and status. *)
InitOne ==
  /\ \E n \in Lens : \E e \in [1..n -> Vals], st \in STATUS :
       /\ heap = (0 :> e)
       /\ vec = ("a" :> Vector(n, 0, st))
  /\ rheap = <<>>
  /\ mat = <<>>
  /\ ngen = 1
  /\ last = Last("init", "-", "-", 0, 0)
  /\ ret = NoRet

(* Two vectors a and b, constructed and filled by the client: a healthy,   *)
(* b flagged by an earlier b[i] past its end.                              *)
InitTwo ==
  /\ \E n \in Lens, m \in Lens :
       \E e \in [1..n -> Elem], f \in [1..m -> Elem] :
         /\ heap = (0 :> e) @@ (1 :> f)
         /\ vec = ("a" :> Vector(n, 0, GOOD_ALLOCATOR)) @@ ("b" :> Vector(m, 1, BOUND_ARRAY))
  /\ rheap = <<>>
  /\ mat = <<>>
  /\ ngen = 2
  /\ last = Last("init", "-", "-", 0, 0)
  /\ ret = NoRet

(* The effect of an expression on the named vectors.                       *)
VStep(w, newvec, l, r) ==
  /\ heap' = w.heap
  /\ ngen' = w.ngen
  /\ vec' = newvec
  /\ last' = l
  /\ ret' = r
  /\ UNCHANGED <<rheap, mat>>

(* An expression whose value is a temporary vector: observed, destroyed.   *)
VTemp(res, l) ==
  VStep(basic_vector_dtor(res.w, res.v), vec, l, RetVec(res.w.heap, res.v))

VFree(s) == s \in VSlots /\ s \notin DOMAIN vec /\ DOMAIN mat = {}

VConstructDefault(s) ==
  /\ VFree(s)
  /\ LET c == basic_vector_default(W) IN
     VStep(c.w, (s :> c.v) @@ vec, Last("ctor_default", s, "-", 0, 0), NoRet)

VConstructSized(s, n) ==
  /\ VFree(s)
  /\ LET c == basic_vector_sized(W, n) IN
     VStep(c.w, (s :> c.v) @@ vec, Last("ctor_sized", s, "-", 0, 0), NoRet)

VConstructFill(s, n, f, junk) ==
  /\ VFree(s)
  /\ LET c == basic_vector_fill(W, n, f, junk) IN
     VStep(c.w, (s :> c.v) @@ vec, Last("ctor_fill", s, "-", f, n), NoRet)

VConstructCopy(s, o) ==
  /\ VFree(s)
  /\ o \in DOMAIN vec
  /\ LET c == basic_vector_copy(W, vec[o]) IN
     VStep(c.w, (s :> c.v) @@ vec, Last("ctor_copy", s, o, 0, 0), NoRet)

VDestroy(s) ==
  /\ s \in DOMAIN vec
  /\ VStep(basic_vector_dtor(W, vec[s]), [t \in DOMAIN vec \ {s} |-> vec[t]],
           Last("dtor", s, "-", 0, 0), NoRet)

VAssign(s, o) ==
  /\ s \in DOMAIN vec /\ o \in DOMAIN vec
  /\ LET c == vec_assign(W, vec[s], vec[o], s = o) IN
     VStep(c.w, [vec EXCEPT ![s] = c.v], Last("assign", s, o, 0, 0), NoRet)

(* v[i], read.                                                             *)
VIndex(s, i) ==
  /\ s \in DOMAIN vec
  /\ VStep(W, [vec EXCEPT ![s] = Indexed(vec[s], i)], Last("index", s, "-", 0, i),
           RetRef(vec[s].Allocator, IndexPos(vec[s], i), ReadAt(heap, vec[s], i)))

(* v[i] = x.                                                               *)
VIndexStore(s, i, x) ==
  /\ s \in DOMAIN vec
  /\ LET c == vec_store(W, vec[s], i, x) IN
     VStep(c.w, [vec EXCEPT ![s] = c.v], Last("store", s, "-", 0, i),
           RetRef(vec[s].Allocator, IndexPos(vec[s], i), x))

(* v.at(i), read.  Past the end the read has no defined value: g.         *)
VAt(s, i, g) ==
  /\ s \in DOMAIN vec
  /\ i < vec[s].Length => g = Elems(heap, vec[s])[i + 1]
  /\ VStep(W, vec, Last("at", s, "-", 0, i),
           RetRef(vec[s].Allocator, AtPos(vec[s], i), g))

VSet(s, x, i) ==
  /\ s \in DOMAIN vec
  /\ i < vec[s].Length
  /\ LET c == vec_set(W, vec[s], x, i) IN
     VStep(c.w, [vec EXCEPT ![s] = c.v], Last("set", s, "-", 0, 0), NoRet)

VMul(s, k) ==
  /\ s \in DOMAIN vec
  /\ VTemp(vec_mul(W, vec[s], k), Last("mul", s, "-", k, 0))

VDiv(s, k) ==
  /\ s \in DOMAIN vec
  /\ VTemp(vec_div(W, vec[s], k), Last("div", s, "-", k, 0))

VAdd(s, o) ==
  /\ s \in DOMAIN vec /\ o \in DOMAIN vec
  /\ VTemp(vec_add(W, vec[s], vec[o]), Last("add", s, o, 0, 0))

VSub(s, o) ==
  /\ s \in DOMAIN vec /\ o \in DOMAIN vec
  /\ VTemp(vec_sub(W, vec[s], vec[o]), Last("sub", s, o, 0, 0))

(* Compound operators: the client keeps the stored values within Vals.    *)
VInPlace(s, c, l) ==
  /\ InVals(Elems(c.w.heap, c.v))
  /\ VStep(c.w, [vec EXCEPT ![s] = c.v], l, NoRet)

VMulAssign(s, k) ==
  /\ s \in DOMAIN vec
  /\ VInPlace(s, vec_mul_assign(W, vec[s], k), Last("mul_assign", s, "-", 0, 0))

VDivAssign(s, k) ==
  /\ s \in DOMAIN vec
  /\ VInPlace(s, vec_div_assign(W, vec[s], k), Last("div_assign", s, "-", k, 0))

VAddAssign(s, o) ==
  /\ s \in DOMAIN vec /\ o \in DOMAIN vec
  /\ VInPlace(s, vec_add_assign(W, vec[s], vec[o]), Last("add_assign", s, o, 0, 0))

VSubAssign(s, o) ==
  /\ s \in DOMAIN vec /\ o \in DOMAIN vec
  /\ VInPlace(s, vec_sub_assign(W, vec[s], vec[o]), Last("sub_assign", s, o, 0, 0))

VEq(s, o) ==
  /\ s \in DOMAIN vec /\ o \in DOMAIN vec
  /\ LET c == vec_eq(W, vec[s], vec[o]) IN
     VStep(c.w, vec, Last("eq", s, o, 0, 0), RetBool(c.r))

VNe(s, o) ==
  /\ s \in DOMAIN vec /\ o \in DOMAIN vec
  /\ LET c == vec_ne(W, vec[s], vec[o]) IN
     VStep(c.w, vec, Last("ne", s, o, 0, 0), RetBool(c.r))

JunkFor(n, f) == IF f < 0 THEN [1..n -> Elem] ELSE {Fill(n, 0)}

(* Construction, destruction, assignment and set: what every client does. *)
NextVBase ==
  \/ \E s \in VSlots : VConstructDefault(s)
  \/ \E s \in VSlots, n \in Lens : VConstructSized(s, n)
  \/ \E s \in VSlots, n \in Lens, f \in -1..MaxElem :
       \E junk \in JunkFor(n, f) : VConstructFill(s, n, f, junk)
  \/ \E s \in VSlots, o \in VSlots : VConstructCopy(s, o)
  \/ \E s \in VSlots : VDestroy(s)
  \/ \E s \in VSlots, o \in VSlots : VAssign(s, o)
  \/ \E s \in VSlots, i \in 0..(MaxLen - 1), x \in Elem : VSet(s, x, i)

NextIndex ==
  \/ \E s \in VSlots, i \in 0..(MaxLen + 1) : VIndex(s, i)
  \/ \E s \in VSlots, i \in 0..(MaxLen + 1), x \in Elem : VIndexStore(s, i, x)
  \/ \E s \in VSlots, i \in 0..(MaxLen + 1), g \in Elem : VAt(s, i, g)

NextAddSub ==
  \/ \E s \in VSlots, o \in VSlots : VAdd(s, o)
  \/ \E s \in VSlots, o \in VSlots : VSub(s, o)

NextDiv ==
  \/ \E s \in VSlots, k \in Vals : VMul(s, k)
  \/ \E s \in VSlots, k \in Vals : VDiv(s, k)
  \/ \E s \in VSlots, k \in Vals : VDivAssign(s, k)

NextEq ==
  \/ \E s \in VSlots, o \in VSlots : VEq(s, o)
  \/ \E s \in VSlots, o \in VSlots : VNe(s, o)

SpecIndex == InitOne /\ [][NextIndex]_vars
SpecAddSub == InitTwo /\ [][NextAddSub]_vars
SpecDiv == InitOne /\ [][NextDiv]_vars
SpecEq == InitTwo /\ [][NextEq]_vars
SpecCtor == Init /\ [][NextVBase]_vars

(***************************************************************************)
(* The client program, matrices.                                           *)
(***************************************************************************)
MSnap(h, rh, m) ==
  [Rows |-> m.Rows, Columns |-> m.Columns, Status |-> m.Status,
   rows |-> [i \in DOMAIN rh[m.Allocator] |-> Snap(h, rh[m.Allocator][i])]]
RetMat(h, rh, m) == [kind |-> "mat", mat |-> MSnap(h, rh, m)]
RetMRef(row, buf, pos, val) ==
  [kind |-> "mref", row |-> row, buf |-> buf, pos |-> pos, val |-> val]

(* One matrix A, two matrices A and B, as the fill constructor leaves     *)
(* them.                                                                   *)
InitOneMat ==
  /\ \E r \in Dims, c \in Dims, x \in Elem :
       LET m == matrix_fill(World(<<>>, 0), <<>>, r, c, x) IN
       /\ heap = m.w.heap
       /\ ngen = m.w.ngen
       /\ rheap = m.rh
       /\ mat = ("A" :> m.m)
  /\ vec = <<>>
  /\ last = Last("init", "-", "-", 0, 0)
  /\ ret = NoRet

InitTwoMat ==
  /\ \E r \in Dims, c \in Dims, x \in Elem, r2 \in Dims, c2 \in Dims, x2 \in Elem :
       LET m == matrix_fill(World(<<>>, 0), <<>>, r, c, x)
           n == matrix_fill(m.w, m.rh, r2, c2, x2)
       IN /\ heap = n.w.heap
          /\ ngen = n.w.ngen
          /\ rheap = n.rh
          /\ mat = ("A" :> m.m) @@ ("B" :> n.m)
  /\ vec = <<>>
  /\ last = Last("init", "-", "-", 0, 0)
  /\ ret = NoRet

MStep(r, newmat, l, rt) ==
  /\ heap' = r.w.heap
  /\ ngen' = r.w.ngen
  /\ rheap' = r.rh
  /\ mat' = newmat
  /\ last' = l
  /\ ret' = rt
  /\ UNCHANGED vec

(* An expression whose value is a temporary matrix: observed, destroyed.   *)
MTemp(r, l) ==
  LET d == matrix_dtor(r.w, r.rh, r.m) IN
  MStep(MRes(d.w, d.rh, r.m), mat, l, RetMat(r.w.heap, r.rh, r.m))

MFree(s) == s \in MSlots /\ s \notin DOMAIN mat /\ DOMAIN vec = {}

(* The values an indeterminate _Columns is observed to hold.               *)
ColumnsJunk == 0..(MaxDim + 1)
(* The objects a read past a row array is observed to yield.               *)
RowJunk == UNION {[1..n -> Elem] : n \in Dims}

MConstructSized(s, n) ==
  /\ MFree(s)
  /\ LET c == matrix_sized(W, rheap, n) IN
     MStep(c, (s :> c.m) @@ mat, Last("mctor_sized", s, "-", 0, n), NoRet)

MConstructFill(s, r, c, x) ==
  /\ MFree(s)
  /\ LET m == matrix_fill(W, rheap, r, c, x) IN
     MStep(m, (s :> m.m) @@ mat, Last("mctor_fill", s, "-", 0, 0), NoRet)

MConstructCopy(s, o, columns) ==
  /\ MFree(s)
  /\ o \in DOMAIN mat
  /\ LET c == matrix_copy(W, rheap, mat[o], columns) IN
     MStep(c, (s :> c.m) @@ mat, Last("mctor_copy", s, o, 0, 0), NoRet)

MDestroy(s) ==
  /\ s \in DOMAIN mat
  /\ LET d == matrix_dtor(W, rheap, mat[s]) IN
     MStep(MRes(d.w, d.rh, mat[s]), [t \in DOMAIN mat \ {s} |-> mat[t]],
           Last("mdtor", s, "-", 0, 0), NoRet)

MAssign(s, o) ==
  /\ s \in DOMAIN mat /\ o \in DOMAIN mat
  /\ LET c == matrix_assign(W, rheap, mat[s], mat[o], s = o) IN
     MStep(c, [mat EXCEPT ![s] = c.m], Last("massign", s, o, 0, 0), NoRet)

MSet(s, row, column, x) ==
  /\ s \in DOMAIN mat
  /\ row < mat[s].Rows
  /\ LET c == matrix_set(W, rheap, mat[s], row, column, x) IN
     MStep(c, [mat EXCEPT ![s] = c.m], Last("mset", s, "-", 0, 0), NoRet)

(* m.at(row, column) or m(row, column), read: last.i is the row, last.k   *)
(* the column.                                                             *)
MAt(s, row, column) ==
  /\ s \in DOMAIN mat
  /\ LET x == mat_index(rheap, mat[s], row, column) IN
     MStep(MRes(W, x.rh, x.m), [mat EXCEPT ![s] = x.m],
           Last("mat_at", s, "-", column, row),
           RetMRef(x.row, x.buf, x.pos, heap[x.buf][x.pos + 1]))

(* m(row, column) = x.                                                     *)
MStore(s, row, column, x) ==
  /\ s \in DOMAIN mat
  /\ LET c == matrix_store(W, rheap, mat[s], row, column, x) IN
     MStep(c, [mat EXCEPT ![s] = c.m], Last("mstore", s, "-", 0, 0), NoRet)

(* The world with the object found past o's row array, when the loop over *)
(* s's rows reads it.                                                      *)
ReadsPast(s, o) == ~DimensionsDiffer(mat[s], mat[o]) /\ mat[s].Rows > mat[o].Rows
JunkAddr == NewAddr(heap)
JunkWorld(s, o, junk) ==
  IF ReadsPast(s, o) THEN World(Alloc(heap, JunkAddr, junk), ngen) ELSE W
JunkVector(junk) == Vector(Len(junk), JunkAddr, GOOD_ALLOCATOR)
JunkGone(s, o, r) ==
  IF ReadsPast(s, o) THEN MRes(World(Free(r.w.heap, JunkAddr), r.w.ngen), r.rh, r.m)
  ELSE r
JunkRows(s, o) == IF ReadsPast(s, o) THEN RowJunk ELSE {<<>>}

MAdd(s, o, columns, junk) ==
  /\ s \in DOMAIN mat /\ o \in DOMAIN mat
  /\ junk \in JunkRows(s, o)
  /\ MTemp(JunkGone(s, o, matrix_add(JunkWorld(s, o, junk), rheap, mat[s], mat[o],
                                     columns, JunkVector(junk))),
           Last("madd", s, o, 0, 0))

MSub(s, o, columns, junk) ==
  /\ s \in DOMAIN mat /\ o \in DOMAIN mat
  /\ junk \in JunkRows(s, o)
  /\ MTemp(JunkGone(s, o, matrix_sub(JunkWorld(s, o, junk), rheap, mat[s], mat[o],
                                     columns, JunkVector(junk))),
           Last("msub", s, o, 0, 0))

(* Compound operators: the client keeps the stored values within Elem.    *)
MInPlace(s, c, l) ==
  /\ \A i \in DOMAIN c.rh[c.m.Allocator] :
       \A j \in DOMAIN Elems(c.w.heap, c.rh[c.m.Allocator][i]) :
         Elems(c.w.heap, c.rh[c.m.Allocator][i])[j] \in Elem
  /\ MStep(c, [mat EXCEPT ![s] = c.m], l, NoRet)

MAddAssign(s, o, junk) ==
  /\ s \in DOMAIN mat /\ o \in DOMAIN mat
  /\ junk \in JunkRows(s, o)
  /\ MInPlace(s, JunkGone(s, o, matrix_add_assign(JunkWorld(s, o, junk), rheap, mat[s],
                                                  mat[o], JunkVector(junk))),
              Last("madd_assign", s, o, 0, 0))

MSubAssign(s, o, junk) ==
  /\ s \in DOMAIN mat /\ o \in DOMAIN mat
  /\ junk \in JunkRows(s, o)
  /\ MInPlace(s, JunkGone(s, o, matrix_sub_assign(JunkWorld(s, o, junk), rheap, mat[s],
                                                  mat[o], JunkVector(junk))),
              Last("msub_assign", s, o, 0, 0))

MDivAssign(s, k) ==
  /\ s \in DOMAIN mat
  /\ MInPlace(s, matrix_div_assign(W, rheap, mat[s], k), Last("mdiv_assign", s, "-", k, 0))

(* The values the client keeps in its containers.                          *)
StoredInElem == \A p \in DOMAIN heap : \A i \in DOMAIN heap[p] : heap[p][i] \in Elem

(* s * o: the operands as the reads left them, the product observed and   *)
(* destroyed.                                                              *)
MMul(s, o) ==
  /\ s \in DOMAIN mat /\ o \in DOMAIN mat
  /\ \E p \in {matrix_mul(W, rheap, mat[s], mat[o], s = o)} :
       \E d \in {matrix_dtor(p.w, p.rh, p.m)} :
         MStep(MRes(d.w, d.rh, p.m), [mat EXCEPT ![s] = p.lhs, ![o] = p.rhs],
               Last("mmul", s, o, 0, 0), RetMat(p.w.heap, p.rh, p.m))

(* s *= o.                                                                 *)
MMulAssign(s, o) ==
  /\ s \in DOMAIN mat /\ o \in DOMAIN mat
  /\ \E p \in {matrix_mul_assign(W, rheap, mat[s], mat[o], s = o)} :
       MStep(MRes(p.w, p.rh, p.m), [mat EXCEPT ![o] = p.other, ![s] = p.m],
             Last("mmul_assign", s, o, 0, 0), NoRet)

(* s == o and s != o.                                                      *)
MCompare(s, o, junk, e, l) ==
  MStep(MRes(World(IF ReadsPast(s, o) THEN Free(e.w.heap, JunkAddr) ELSE e.w.heap,
                   e.w.ngen),
             rheap, mat[s]),
        mat, l, RetBool(e.r))

MEq(s, o, junk) ==
  /\ s \in DOMAIN mat /\ o \in DOMAIN mat
  /\ junk \in JunkRows(s, o)
  /\ MCompare(s, o, junk,
              matrix_eq(JunkWorld(s, o, junk), rheap, mat[s], mat[o], JunkVector(junk)),
              Last("meq", s, o, 0, 0))

MNe(s, o, junk) ==
  /\ s \in DOMAIN mat /\ o \in DOMAIN mat
  /\ junk \in JunkRows(s, o)
  /\ MCompare(s, o, junk,
              matrix_ne(JunkWorld(s, o, junk), rheap, mat[s], mat[o], JunkVector(junk)),
              Last("mne", s, o, 0, 0))

(* Two matrices A and B, each as the fill constructor and one set call    *)
(* leave it.                                                               *)
InitMatPair ==
  /\ \E r \in Dims, c \in Dims, x \in Elem, y \in Elem,
        r2 \in Dims, c2 \in Dims, x2 \in Elem, y2 \in Elem :
       \E i \in 0..(r - 1), j \in 0..(c - 1), i2 \in 0..(r2 - 1), j2 \in 0..(c2 - 1) :
         LET m == matrix_fill(World(<<>>, 0), <<>>, r, c, x)
             m1 == matrix_set(m.w, m.rh, m.m, i, j, y)
             n == matrix_fill(m1.w, m1.rh, r2, c2, x2)
             n1 == matrix_set(n.w, n.rh, n.m, i2, j2, y2)
         IN /\ heap = n1.w.heap
            /\ ngen = n1.w.ngen
            /\ rheap = n1.rh
            /\ mat = ("A" :> m1.m) @@ ("B" :> n1.m)
  /\ vec = <<>>
  /\ last = Last("init", "-", "-", 0, 0)
  /\ ret = NoRet

NextMatMul ==
  \/ \E s \in MSlots, o \in MSlots : MMul(s, o)
  \/ \E s \in MSlots, o \in MSlots : MMulAssign(s, o) /\ StoredInElem'

NextMatEq ==
  \/ \E s \in MSlots, o \in MSlots, junk \in RowJunk \cup {<<>>} : MEq(s, o, junk)
  \/ \E s \in MSlots, o \in MSlots, junk \in RowJunk \cup {<<>>} : MNe(s, o, junk)

NextMatIndex ==
  \/ \E s \in MSlots, o \in MSlots, c \in ColumnsJunk : MConstructCopy(s, o, c)
  \/ \E s \in MSlots : MDestroy(s)
  \/ \E s \in MSlots, r \in 0..MaxDim, c \in 0..MaxDim : MAt(s, r, c)

NextMatAdd ==
  \/ \E s \in MSlots, o \in MSlots, c \in ColumnsJunk, junk \in RowJunk \cup {<<>>} :
       MAdd(s, o, c, junk)
  \/ \E s \in MSlots, o \in MSlots, c \in ColumnsJunk, junk \in RowJunk \cup {<<>>} :
       MSub(s, o, c, junk)

NextMatAddAssign ==
  \/ \E s \in MSlots, o \in MSlots, junk \in RowJunk \cup {<<>>} : MAddAssign(s, o, junk)
  \/ \E s \in MSlots, o \in MSlots, junk \in RowJunk \cup {<<>>} : MSubAssign(s, o, junk)

NextMatLife ==
  \/ \E s \in MSlots, n \in Dims : MConstructSized(s, n)
  \/ \E s \in MSlots, r \in Dims, c \in Dims, x \in Elem : MConstructFill(s, r, c, x)
  \/ \E s \in MSlots, o \in MSlots, c \in ColumnsJunk : MConstructCopy(s, o, c)
  \/ \E s \in MSlots : MDestroy(s)
  \/ \E s \in MSlots, o \in MSlots : MAssign(s, o)
  \/ \E s \in MSlots, k \in Elem : MDivAssign(s, k)

(* A client that starts with nothing and constructs, copies, assigns,     *)
(* adds, multiplies, compares and destroys vectors and matrices.  It       *)
(* fills with 0 or with a negative value.                                  *)
NextCount ==
  \/ \E s \in VSlots : VConstructDefault(s)
  \/ \E s \in VSlots, n \in Lens : VConstructSized(s, n)
  \/ \E s \in VSlots, n \in Lens, f \in {-1, 0} :
       \E junk \in JunkFor(n, f) : VConstructFill(s, n, f, junk)
  \/ \E s \in VSlots, o \in VSlots : VConstructCopy(s, o)
  \/ \E s \in VSlots : VDestroy(s)
  \/ \E s \in VSlots, o \in VSlots : VAssign(s, o)
  \/ \E s \in VSlots, k \in Elem : VMul(s, k)
  \/ \E s \in VSlots, o \in VSlots : VAdd(s, o)
  \/ \E s \in VSlots, o \in VSlots : VEq(s, o)
  \/ \E s \in MSlots, n \in Dims : MConstructSized(s, n)
  \/ \E s \in MSlots, r \in Dims, c \in Dims : MConstructFill(s, r, c, 0)
  \/ \E s \in MSlots, o \in MSlots, c \in ColumnsJunk : MConstructCopy(s, o, c)
  \/ \E s \in MSlots : MDestroy(s)
  \/ \E s \in MSlots, o \in MSlots : MAssign(s, o)
  \/ \E s \in MSlots, o \in MSlots : MMul(s, o)
  \/ \E s \in MSlots, o \in MSlots, junk \in RowJunk \cup {<<>>} : MEq(s, o, junk)

(* A client that copies and then mutates: one vector or one matrix to      *)
(* start from, the other slot filled by the copy constructor or by copy    *)
(* assignment.  The client keeps the stored values within Elem and the    *)
(* matrix within MaxDim elements.                                          *)
InitCopy ==
  \/ /\ \E n \in Lens : \E e \in [1..n -> Elem] :
          /\ heap = (0 :> e)
          /\ vec = ("a" :> Vector(n, 0, GOOD_ALLOCATOR))
     /\ rheap = <<>>
     /\ mat = <<>>
     /\ ngen = 1
     /\ last = Last("init", "-", "-", 0, 0)
     /\ ret = NoRet
  \/ /\ \E r \in Dims, c \in Dims, x \in Elem :
          /\ r * c <= MaxDim
          /\ LET m == matrix_fill(World(<<>>, 0), <<>>, r, c, x) IN
             /\ heap = m.w.heap
             /\ ngen = m.w.ngen
             /\ rheap = m.rh
             /\ mat = ("A" :> m.m)
     /\ vec = <<>>
     /\ last = Last("init", "-", "-", 0, 0)
     /\ ret = NoRet

NextCopy ==
  \/ \E s \in VSlots, o \in VSlots : VConstructCopy(s, o)
  \/ \E s \in VSlots, o \in VSlots : VAssign(s, o)
  \/ \E s \in VSlots : VDestroy(s)
  \/ \E s \in VSlots, i \in 0..(MaxLen - 1), x \in Elem : VSet(s, x, i)
  \/ \E s \in VSlots, i \in 0..MaxLen, x \in Elem : VIndexStore(s, i, x)
  \/ \E s \in VSlots, k \in Elem : VMulAssign(s, k)
  \/ \E s \in VSlots, o \in VSlots : VAddAssign(s, o) /\ StoredInElem'
  \/ \E s \in VSlots, o \in VSlots : VSubAssign(s, o) /\ StoredInElem'
  \/ \E s \in MSlots, o \in MSlots, c \in ColumnsJunk : MConstructCopy(s, o, c)
  \/ \E s \in MSlots, o \in MSlots : MAssign(s, o)
  \/ \E s \in MSlots : MDestroy(s)
  \/ \E s \in MSlots, r \in 0..(MaxDim - 1), c \in 0..(MaxDim - 1), x \in Elem :
       MSet(s, r, c, x)
  \/ \E s \in MSlots, r \in 0..(MaxDim - 1), c \in 0..(MaxDim - 1), x \in Elem :
       MStore(s, r, c, x)
  \/ \E s \in MSlots, o \in MSlots, junk \in RowJunk \cup {<<>>} : MAddAssign(s, o, junk)
  \/ \E s \in MSlots, o \in MSlots, junk \in RowJunk \cup {<<>>} : MSubAssign(s, o, junk)

SpecCopy == InitCopy /\ [][NextCopy]_vars
SpecMatMul == InitMatPair /\ [][NextMatMul]_vars
SpecMatEq == InitMatPair /\ [][NextMatEq]_vars
SpecMatIndex == InitOneMat /\ [][NextMatIndex]_vars
SpecMatAdd == InitTwoMat /\ [][NextMatAdd]_vars
SpecMatAddAssign == InitTwoMat /\ [][NextMatAddAssign]_vars
SpecMatLife == Init /\ [][NextMatLife]_vars
SpecCount == Init /\ [][NextCount]_vars

(***************************************************************************)
(* Properties of the vector.                                               *)
(***************************************************************************)
Count(e, x) == Cardinality({i \in DOMAIN e : e[i] = x})
Range(e) == {e[i] : i \in DOMAIN e}
MultisetEq(e, f) ==
  /\ Len(e) = Len(f)
  /\ \A x \in Range(e) \cup Range(f) : Count(e, x) = Count(f, x)

(* What a clamp-and-flag accessor does in a step that evaluates v(i): an  *)
(* index past the end flags the vector and designates its last element,   *)
(* an index within it designates that element and leaves the status.      *)
ClampAndFlag(s, i) ==
  LET v == vec[s] IN
  /\ ret'.buf = v.Allocator
  /\ IF i >= v.Length
     THEN /\ vec'[s].Status = BOUND_ARRAY
          /\ ret'.pos = v.Length - 1
     ELSE /\ vec'[s].Status = v.Status
          /\ ret'.pos = i
  /\ last'.op # "store" => ret'.val = heap[v.Allocator][ret'.pos + 1]
  /\ vec'[s].Length = v.Length /\ vec'[s].Allocator = v.Allocator

(* C1 as amended: operator[] (read or written through, const or not)       *)
(* called with an index >= N sets the status to BOUND_ARRAY and designates *)
(* element N-1, and with an index < N designates element `index` and       *)
(* leaves the status; at() never checks: it leaves the status and          *)
(* designates position `index`, also past the end.                         *)
C1_IndexClampsAtUnchecked ==
  [][/\ last'.op \in {"index", "store"} => ClampAndFlag(last'.s, last'.i)
     /\ last'.op = "at" =>
          /\ vec' = vec /\ heap' = heap
          /\ ret'.buf = vec[last'.s].Allocator
          /\ ret'.pos = last'.i
          /\ last'.i < vec[last'.s].Length =>
               ret'.val = heap[vec[last'.s].Allocator][last'.i + 1]]_vars

(* C1 as stated: operator[] and at alike clamp and flag.                   *)
C1_AllAccessorsClamp ==
  [][last'.op \in {"index", "store", "at"} => ClampAndFlag(last'.s, last'.i)]_vars

C1_Witness ==
  /\ last.op = "index"
  /\ last.i >= vec[last.s].Length
  /\ vec[last.s].Length >= 2
  /\ vec[last.s].Status = BOUND_ARRAY
  /\ ret.pos = vec[last.s].Length - 1

(* C2: a + b and a - b of different lengths give a zero vector of a's      *)
(* length with status BOUND_ARRAY; of equal lengths, the element-wise sum  *)
(* (difference, in T) with status GOOD_ALLOCATOR; a and b are untouched.   *)
C2_AddSub ==
  [][last'.op \in {"add", "sub"} =>
       LET a == vec[last'.s]
           b == vec[last'.o]
           ea == heap[a.Allocator]
           eb == heap[b.Allocator]
           r == ret'.vec
       IN /\ r.Length = a.Length
          /\ Len(r.elems) = a.Length
          /\ IF a.Length # b.Length
             THEN /\ r.Status = BOUND_ARRAY
                  /\ \A i \in 1..a.Length : r.elems[i] = 0
             ELSE /\ r.Status = GOOD_ALLOCATOR
                  /\ \A i \in 1..a.Length :
                       r.elems[i] = IF last'.op = "add" THEN ea[i] + eb[i]
                                    ELSE IF ea[i] >= eb[i] THEN ea[i] - eb[i]
                                    ELSE Modulus - (eb[i] - ea[i])
          /\ vec' = vec
          /\ heap' = heap]_vars

C2_Witness ==
  /\ last.op = "add"
  /\ vec[last.s].Length = 3 /\ vec[last.o].Length = 2
  /\ ret.vec.Status = BOUND_ARRAY
  /\ ret.vec.elems = <<0, 0, 0>>

(* C3: v /= 0 leaves the elements and sets DIVIDED_ZERO; v / 0 returns a   *)
(* vector with v's length and elements and status DIVIDED_ZERO, v being    *)
(* untouched; for k # 0 every element is the old one divided by k, v /= k  *)
(* leaves v's status, and v / k of a healthy v is healthy.                 *)
C3_Div ==
  [][/\ last'.op = "div_assign" =>
          LET v == vec[last'.s]
              old == heap[v.Allocator]
              new == heap'[vec'[last'.s].Allocator]
          IN /\ vec'[last'.s].Length = v.Length
             /\ Len(new) = v.Length
             /\ IF last'.k = 0
                THEN /\ new = old
                     /\ vec'[last'.s].Status = DIVIDED_ZERO
                ELSE /\ \A i \in 1..v.Length : new[i] = old[i] \div last'.k
                     /\ vec'[last'.s].Status = v.Status
     /\ last'.op = "div" =>
          LET v == vec[last'.s]
              old == heap[v.Allocator]
              r == ret'.vec
          IN /\ vec' = vec /\ heap' = heap
             /\ r.Length = v.Length
             /\ Len(r.elems) = v.Length
             /\ IF last'.k = 0
                THEN /\ r.elems = old
                     /\ r.Status = DIVIDED_ZERO
                ELSE /\ \A i \in 1..v.Length : r.elems[i] = old[i] \div last'.k
                     /\ v.Status = GOOD_ALLOCATOR => r.Status = GOOD_ALLOCATOR]_vars

C3_Witness ==
  /\ last.op = "div"
  /\ last.k = 0
  /\ ret.vec.Status = DIVIDED_ZERO
  /\ ret.vec.elems = <<2, 4>>
  /\ vec[last.s].Status = GOOD_ALLOCATOR

(* C4: the fill constructor of an unsigned vector gives, for a negative    *)
(* value, N elements 0 and status BAD_INITIALIZED, and for a value f >= 0, *)
(* N elements f and status GOOD_ALLOCATOR.                                 *)
C4_FillConstructor ==
  last.op = "ctor_fill" =>
    LET v == vec[last.s] IN
    /\ v.Length = last.i
    /\ Len(Elems(heap, v)) = last.i
    /\ IF last.k < 0
       THEN /\ v.Status = BAD_INITIALIZED
            /\ \A i \in 1..v.Length : Elems(heap, v)[i] = 0
       ELSE /\ v.Status = GOOD_ALLOCATOR
            /\ \A i \in 1..v.Length : Elems(heap, v)[i] = last.k

(* C5: a == b exactly when a and b have the same length and the same       *)
(* elements with the same multiplicities; a != b is its negation; neither  *)
(* changes the elements, their order or the status of a or b.              *)
C5_MultisetEquality ==
  [][last'.op \in {"eq", "ne"} =>
       /\ ret'.bool = ((last'.op = "eq") <=>
                         MultisetEq(Elems(heap, vec[last'.s]), Elems(heap, vec[last'.o])))
       /\ vec' = vec
       /\ heap' = heap]_vars

C5_Witness ==
  /\ last.op = "eq"
  /\ ret.bool
  /\ Elems(heap, vec[last.s]) = <<0, 1, 1>>
  /\ Elems(heap, vec[last.o]) = <<1, 0, 1>>

(***************************************************************************)
(* Properties of the matrix.                                               *)
(***************************************************************************)
MElems(h, rh, m) == [i \in DOMAIN rh[m.Allocator] |-> h[rh[m.Allocator][i].Allocator]]

(* C7: every matrix owns exactly rows() row vectors, each of length        *)
(* columns().                                                              *)
C7_ShapeInvariant ==
  \A s \in DOMAIN mat :
    /\ Len(rheap[mat[s].Allocator]) = mat[s].Rows
    /\ \A i \in 1..mat[s].Rows :
         /\ rheap[mat[s].Allocator][i].Length = mat[s].Columns
         /\ Len(heap[rheap[mat[s].Allocator][i].Allocator]) = mat[s].Columns

(* C8: m(row, column) with row >= rows() sets the matrix status to         *)
(* BOUND_ARRAY and designates element (rows()-1, columns()-1); with        *)
(* row < rows() and column >= columns() it designates the last element of  *)
(* that row, sets that row's status to BOUND_ARRAY and leaves the matrix   *)
(* status; with both in range it designates (row, column) and no status    *)
(* changes.                                                                *)
C8_TwoChannels ==
  [][last'.op = "mat_at" =>
       LET m == mat[last'.s]
           row == last'.i
           column == last'.k
           rows == rheap[m.Allocator]
           rows2 == rheap'[m.Allocator]
       IN IF row >= m.Rows
          THEN /\ mat'[last'.s].Status = BOUND_ARRAY
               /\ ret'.row = m.Rows - 1
               /\ ret'.pos = m.Columns - 1
          ELSE IF column >= m.Columns
          THEN /\ ret'.row = row
               /\ ret'.pos = rows[row + 1].Length - 1
               /\ rows2[row + 1].Status = BOUND_ARRAY
               /\ mat'[last'.s].Status = m.Status
          ELSE /\ ret'.row = row
               /\ ret'.pos = column
               /\ mat'[last'.s].Status = m.Status
               /\ \A i \in 1..m.Rows : rows2[i].Status = rows[i].Status]_vars

(* C9: a + b and a - b of different dimensions give a matrix with status   *)
(* BOUND_ARRAY and the dimensions and elements of a; of equal dimensions,  *)
(* a matrix of those dimensions with the element-wise sum (difference).    *)
C9_AddSub ==
  last.op \in {"madd", "msub"} =>
    LET a == mat[last.s]
        b == mat[last.o]
        ea == MElems(heap, rheap, a)
        eb == MElems(heap, rheap, b)
        r == ret.mat
    IN /\ r.Rows = a.Rows
       /\ r.Columns = a.Columns
       /\ Len(r.rows) = a.Rows
       /\ \A i \in 1..a.Rows : r.rows[i].Length = a.Columns
       /\ IF a.Rows # b.Rows \/ a.Columns # b.Columns
          THEN /\ r.Status = BOUND_ARRAY
               /\ \A i \in 1..a.Rows : r.rows[i].elems = ea[i]
          ELSE \A i \in 1..a.Rows : \A j \in 1..a.Columns :
                 r.rows[i].elems[j] = IF last.op = "madd" THEN TAdd(ea[i][j], eb[i][j])
                                      ELSE TSub(ea[i][j], eb[i][j])

(* C10: a += b and a -= b of different dimensions leave a unchanged and    *)
(* read only rows that both operands have; of equal dimensions every       *)
(* element of a becomes the sum (difference) and b is unchanged.           *)
C10_AddSubAssign ==
  [][last'.op \in {"madd_assign", "msub_assign"} =>
       LET a == mat[last'.s]
           b == mat[last'.o]
           ea == MElems(heap, rheap, a)
           eb == MElems(heap, rheap, b)
           a2 == mat'[last'.s]
           ea2 == MElems(heap', rheap', a2)
       IN /\ a2.Rows = a.Rows /\ a2.Columns = a.Columns
          /\ IF a.Rows # b.Rows \/ a.Columns # b.Columns
             THEN /\ ea2 = ea
                  /\ ~ReadsPast(last'.s, last'.o)
             ELSE /\ \A i \in 1..a.Rows : \A j \in 1..a.Columns :
                       ea2[i][j] = IF last'.op = "madd_assign" THEN TAdd(ea[i][j], eb[i][j])
                                   ELSE TSub(ea[i][j], eb[i][j])
                  /\ last'.s # last'.o =>
                       /\ mat'[last'.o] = b
                       /\ MSnap(heap', rheap', b) = MSnap(heap, rheap, b)]_vars

(* The buffers of the rows of matrix s; no buffer, row array or row is     *)
(* owned twice.                                                            *)
MRowBuffers(s) == {rheap[mat[s].Allocator][i].Allocator : i \in DOMAIN rheap[mat[s].Allocator]}
NoSharing ==
  /\ \A s \in DOMAIN vec : \A t \in DOMAIN vec : s # t => vec[s].Allocator # vec[t].Allocator
  /\ \A s \in DOMAIN mat : \A t \in DOMAIN mat :
       s # t => /\ mat[s].Allocator # mat[t].Allocator
                /\ MRowBuffers(s) \cap MRowBuffers(t) = {}
  /\ \A s \in DOMAIN mat :
       Cardinality(MRowBuffers(s)) = Len(rheap[mat[s].Allocator])

(* C6: an operation on one vector or matrix (copy construction, copy       *)
(* assignment, set, indexed write, compound operator, destruction) leaves  *)
(* the elements and the dimensions of every other live vector or matrix    *)
(* unchanged, and no two live containers share a buffer, a row array or a *)
(* row.                                                                    *)
C6_DeepCopyIndependence ==
  [][/\ \A t \in DOMAIN vec \cap DOMAIN vec' :
          t # last'.s => /\ vec'[t].Length = vec[t].Length
                         /\ Elems(heap', vec'[t]) = Elems(heap, vec[t])
     /\ \A t \in DOMAIN mat \cap DOMAIN mat' :
          t # last'.s => /\ mat'[t].Rows = mat[t].Rows
                         /\ mat'[t].Columns = mat[t].Columns
                         /\ MElems(heap', rheap', mat'[t]) = MElems(heap, rheap, mat[t])
     /\ NoSharing']_vars

(* A matrix B copied from A and then written through B(row, column): the   *)
(* two now differ in an element.                                           *)
C6_Witness ==
  /\ last.op = "mstore" /\ last.s = "B"
  /\ DOMAIN mat = {"A", "B"}
  /\ mat["A"].Rows = mat["B"].Rows
  /\ MElems(heap, rheap, mat["A"]) # MElems(heap, rheap, mat["B"])

(***************************************************************************)
(* Matrix multiplication and equality.                                     *)
(***************************************************************************)
(* The test of operator* and operator*= as the claims word it.             *)
Incompatible(a, b) == a.Rows # b.Columns /\ a.Columns # b.Rows

(* What m(r, c) yields, e being the elements of m row by row: a row past   *)
(* the last designates (rows-1, columns-1), a column past the end of the   *)
(* row its last element.                                                   *)
Clamp(i, n) == IF i < n THEN i ELSE n - 1
CallOp(e, m, r, c) ==
  IF r < m.Rows THEN e[r + 1][Clamp(c, Len(e[r + 1])) + 1]
  ELSE e[m.Rows][Clamp(m.Columns - 1, Len(e[m.Rows])) + 1]

RECURSIVE SumOf(_)
SumOf(t) == IF t = <<>> THEN 0 ELSE t[1] + SumOf(Tail(t))

ProductRows(a, b) == IF a.Rows >= b.Columns THEN a.Rows ELSE a.Columns
ProductColumns(a, b) == IF a.Rows >= b.Columns THEN b.Columns ELSE b.Rows
(* The elements of the product, row by row.                                *)
Product(ea, a, eb, b) ==
  [r \in 1..ProductRows(a, b) |->
     [c \in 1..ProductColumns(a, b) |->
        SumOf([i \in 1..ProductRows(a, b) |->
                 CallOp(ea, a, r - 1, i - 1) * CallOp(eb, b, i - 1, c - 1)])
          % Modulus]]
Conventional(ea, eb, n) ==
  [r \in 1..n |-> [c \in 1..n |->
     SumOf([i \in 1..n |-> ea[r][i] * eb[i][c]]) % Modulus]]
Square(m, n) == m.Rows = n /\ m.Columns = n

(* C11: when lhs.rows # rhs.columns and lhs.columns # rhs.rows, lhs * rhs  *)
(* is a 1x1 matrix holding 0 and lhs *= rhs leaves lhs as it was           *)
(* (dimensions, elements, status); no operand is read through operator(),  *)
(* so no status changes.                                                   *)
C11_MulIncompatible ==
  [][(/\ last'.op \in {"mmul", "mmul_assign"}
      /\ Incompatible(mat[last'.s], mat[last'.o])) =>
       /\ mat' = mat
       /\ heap' = heap
       /\ rheap' = rheap
       /\ last'.op = "mmul" =>
            /\ ret'.mat.Rows = 1
            /\ ret'.mat.Columns = 1
            /\ Len(ret'.mat.rows) = 1
            /\ ret'.mat.rows[1].elems = <<0>>]_vars

C11_Witness ==
  /\ last.op = "mmul"
  /\ Incompatible(mat[last.s], mat[last.o])
  /\ mat[last.s].Rows = 2 /\ mat[last.s].Columns = 2
  /\ mat[last.o].Rows = 1 /\ mat[last.o].Columns = 1
  /\ MElems(heap, rheap, mat[last.s])[1][1] = 1
  /\ ret.mat.rows[1].elems = <<0>>

(* C12: a == b exactly when the two have the same rows() and columns() and *)
(* every row of a is multiset-equal to the same row of b; a != b is the    *)
(* negation; rows past the end of either operand are not read.             *)
RowsEqual(ea, eb, n) == \A i \in 1..n : MultisetEq(ea[i], eb[i])
C12_MatrixEquality ==
  last.op \in {"meq", "mne"} =>
    LET a == mat[last.s]
        b == mat[last.o]
        ea == MElems(heap, rheap, a)
        eb == MElems(heap, rheap, b)
        equal == /\ a.Rows = b.Rows
                 /\ a.Columns = b.Columns
                 /\ RowsEqual(ea, eb, a.Rows)
    IN /\ ret.bool = ((last.op = "meq") <=> equal)
       /\ ~(/\ ~DimensionsDiffer(a, b)
            /\ a.Rows > b.Rows
            /\ RowsEqual(ea, eb, b.Rows))

RECURSIVE RowCount(_)
RowCount(ps) ==
  IF ps = {} THEN 0
  ELSE LET p == CHOOSE q \in ps : TRUE IN Len(rheap[p]) + RowCount(ps \ {p})
LiveVectors == Cardinality(DOMAIN vec) + RowCount({mat[s].Allocator : s \in DOMAIN mat})

(* C14: after every construction, destruction, assignment or operator,     *)
(* temporaries and row vectors included, ngen is the number of             *)
(* basic_vector objects alive; it is never negative and a copy assignment  *)
(* of vectors leaves it as it was.                                         *)
C14_LiveCounter ==
  [][/\ ngen' = LiveVectors'
     /\ ngen' >= 0
     /\ last'.op = "assign" => ngen' = ngen]_vars

C14_Witness ==
  /\ last.op = "mmul"
  /\ DOMAIN mat = MSlots
  /\ mat["A"].Rows = 2 /\ mat["B"].Rows = 1
  /\ ngen = 3

(* C15: lhs * rhs of compatible matrices leaves the dimensions, elements,  *)
(* matrix status and row statuses of lhs and of rhs unchanged.             *)
C15_MulLeavesOperands ==
  [][(/\ last'.op = "mmul"
      /\ ~Incompatible(mat[last'.s], mat[last'.o])) =>
       /\ mat' = mat
       /\ rheap' = rheap
       /\ heap' = heap]_vars

====
